---------------------------- MODULE Spec2Model ----------------------------
(***************************************************************************)
(* The web3 transaction inspector (src/app.py) as a state machine.         *)
(*                                                                         *)
(* A behaviour is one invocation of one function of the module: main (the  *)
(* command line entry point), is_tx_hash, connect or fetch_summary (called *)
(* with a web3 client whose node answers are drawn from small sets).       *)
(*                                                                         *)
(* Python values are represented as follows.                               *)
(*   str          a sequence of one-character strings (Str wraps it with   *)
(*                its type, so that isinstance can be modelled)            *)
(*   None/absent  the empty sequence <<>>; a present value x is <<x>>      *)
(*   float        a decimal [digits, exp] standing for digits * 10^exp,    *)
(*                normalised so that equal numbers have equal records      *)
(*   f-string     the sequence of its rendered parts                       *)
(* Printed lines are kept without their leading emoji.                     *)
(***************************************************************************)
EXTENDS Integers, Sequences, FiniteSets, TLC

VARIABLES
    fn,        \* the function this run invokes
    pc,        \* the statement the run is at
    args,      \* the arguments of the invocation
    calls,     \* the JSON-RPC requests issued so far, in order
    connected, \* what w3.is_connected() answered: <<>> until probed
    tx,        \* fetch_summary's local tx (line 71), <<>> until assigned
    receipt,   \* fetch_summary's local receipt (line 76)
    block,     \* fetch_summary's local block (line 77)
    latest,    \* fetch_summary's local latest (line 78)
    stdout,    \* the lines printed so far
    outcome,   \* "running", "returned", "SystemExit" or the uncaught exception
    exit,      \* the exit status once the interpreter ends: <<>>, <<0>>, <<1>>
    result     \* the value returned by the invoked function, <<>> if none

vars == <<fn, pc, args, calls, connected, tx, receipt, block, latest, stdout,
          outcome, exit, result>>

-----------------------------------------------------------------------------
(* Bounds of the model.                                                    *)

\* candidate hashes have lengths within LenSlack of the required length
LenSlack == 1
\* block numbers range over 0..MaxBlock
MaxBlock == 2
\* gas amounts range over 0..MaxGas (and 32, which gives ties)
MaxGas == 3
\* gas prices and base fees, in wei, range over 1..MaxPrice
MaxPrice == 2
\* connect's measured latency, in whole seconds, ranges over 0..MaxLatency
MaxLatency == 1

-----------------------------------------------------------------------------
(* Python values.                                                          *)

None == <<>>
Some(x) == <<x>>
Opt(S) == {None} \cup {Some(x) : x \in S}

Str(chars) == [t |-> "str", s |-> chars]
NonStr(type) == [t |-> type, s |-> <<>>]

Max(a, b) == IF a >= b THEN a ELSE b

RECURSIVE Float(_, _)
\* the number digits * 10^exp, with trailing zeros of digits moved to exp
Float(digits, exp) ==
    IF digits = 0 THEN [digits |-> 0, exp |-> 0]
    ELSE IF digits % 10 = 0 THEN Float(digits \div 10, exp + 1)
    ELSE [digits |-> digits, exp |-> exp]

-----------------------------------------------------------------------------
(* Module constants.                                                       *)

NETWORKS ==
    [c \in {1, 10, 56, 137, 42161, 8453} |->
        CASE c = 1 -> "Ethereum Mainnet"
          [] c = 10 -> "Optimism"
          [] c = 56 -> "BNB Smart Chain"
          [] c = 137 -> "Polygon"
          [] c = 42161 -> "Arbitrum One"
          [] c = 8453 -> "Base"]

EXPLORERS ==
    [c \in {1, 10, 56, 137, 42161, 8453} |->
        CASE c = 1 -> "https://etherscan.io"
          [] c = 10 -> "https://optimistic.etherscan.io"
          [] c = 56 -> "https://bscscan.com"
          [] c = 137 -> "https://polygonscan.com"
          [] c = 42161 -> "https://arbiscan.io"
          [] c = 8453 -> "https://basescan.org"]

\* the required length of a transaction hash string
HashLen == 66

\* the literal "0123456789abcdefABCDEF"
HexChars ==
    << "0", "1", "2", "3", "4", "5", "6", "7", "8", "9",
       "a", "b", "c", "d", "e", "f", "A", "B", "C", "D", "E", "F" >>

-----------------------------------------------------------------------------
(* is_tx_hash                                                              *)

\* c in "0123456789abcdefABCDEF", for a one-character c
InHexChars(c) == \E i \in DOMAIN HexChars : HexChars[i] = c

\* v.startswith("0x")
StartsWith0x(s) == Len(s) >= 2 /\ SubSeq(s, 1, 2) = <<"0", "x">>

\* v[2:]
Tail2(s) == SubSeq(s, 3, Len(s))

\* only lower-case digits are accepted
is_tx_hash_lower(v) ==
    /\ v.t = "str"
    /\ StartsWith0x(v.s)
    /\ Len(v.s) = HashLen
    /\ \A i \in DOMAIN Tail2(v.s) :
          \E j \in 1..16 : HexChars[j] = Tail2(v.s)[i]

is_tx_hash(v) ==
    /\ v.t = "str"
    /\ StartsWith0x(v.s)
    /\ Len(v.s) = HashLen
    /\ \A i \in DOMAIN Tail2(v.s) : InHexChars(Tail2(v.s)[i])

-----------------------------------------------------------------------------
(* connect and explorer_url                                                *)

\* DEFAULT_RPC when RPC_URL is not set in the environment
DEFAULT_RPC == "https://mainnet.infura.io/v3/your_api_key"

\* the probe w3.is_connected() issues one request and swallows its failure
Probe == "is_connected"

\* f"{base}/tx/{tx_hash}" if base else "N/A"
explorer_url(chain_id, tx_hash) ==
    IF chain_id \in DOMAIN EXPLORERS
    THEN <<EXPLORERS[chain_id], "/tx/">> \o tx_hash.s
    ELSE <<"N/A">>

-----------------------------------------------------------------------------
(* parse_args                                                              *)

\* the action names argparse registers (argparse.py, _ActionsContainer)
ArgparseActions ==
    {"store", "store_const", "store_true", "store_false", "append",
     "append_const", "count", "help", "version", "parsers", "extend"}

\* the action given for --json on line 116
JsonAction == "true"

\* add_argument raises ValueError('unknown action "true"') for an action that
\* is not registered; otherwise the parsed namespace is returned
parse_args(argv) ==
    IF JsonAction \in ArgparseActions
    THEN Some([tx_hash |-> argv.tx_hash, rpc |-> argv.rpc,
               json |-> IF JsonAction = "store_true" THEN argv.json ELSE FALSE])
    ELSE None

-----------------------------------------------------------------------------
(* Inputs.                                                                 *)

Fill(n, c) == [i \in 1..n |-> c]

\* n copies of c, with ch at position pos (pos = 0: nowhere)
Body(n, c, pos, ch) == [i \in 1..n |-> IF i = pos THEN ch ELSE c]

Prefixes == {<<"0", "x">>, <<"0", "X">>, <<"x", "0">>, <<"0">>, <<>>}

\* digits of both cases
FillChars == {"0", "a", "F"}

\* digits, and the characters next to the digit ranges in ASCII
OddChars == {"9", "f", "A", "g", "G", "x", " ", "/", ":", "@", "_"}

BodyLens ==
    {0, 1, HashLen} \cup {HashLen - 2 + d : d \in (0 - LenSlack)..LenSlack}

Candidates ==
    {Str(p \o Body(n, c, 0, c)) : p \in Prefixes, n \in BodyLens, c \in FillChars}
    \cup UNION {{Str(p \o Body(n, c, pos, ch)) :
                    p \in Prefixes, c \in FillChars, pos \in {1, n},
                    ch \in OddChars} : n \in BodyLens \ {0}}
    \cup {NonStr("NoneType"), NonStr("int"),
          [t |-> "bytes", s |-> <<"0", "x">> \o Fill(HashLen - 2, "a")]}

ValidHash == Str(<<"0", "x">> \o Body(HashLen - 2, "a", 1, "F"))

\* what the command line can carry: any string
MainHashes ==
    {ValidHash, Str(<<"0", "x">>), Str(<<"0", "X">> \o Fill(HashLen - 2, "a")),
     Str(<<"0", "x">> \o Body(HashLen - 2, "a", HashLen - 2, "g"))}

Entries == {"main", "is_tx_hash", "connect", "fetch_summary"}

Argv(f) ==
    CASE f = "main" ->
           {[tx_hash |-> h, rpc |-> DEFAULT_RPC, json |-> j] :
              h \in MainHashes, j \in BOOLEAN}
      [] f = "is_tx_hash" ->
           {[tx_hash |-> h, rpc |-> DEFAULT_RPC, json |-> FALSE] : h \in Candidates}
      [] f = "connect" ->
           {[tx_hash |-> ValidHash, rpc |-> DEFAULT_RPC, json |-> FALSE]}
      [] f = "fetch_summary" ->
           {[tx_hash |-> ValidHash, rpc |-> DEFAULT_RPC, json |-> FALSE]}

Init ==
    /\ fn \in Entries
    /\ args \in Argv(fn)
    /\ pc = fn
    /\ calls = <<>>
    /\ connected = None
    /\ tx = None
    /\ receipt = None
    /\ block = None
    /\ latest = None
    /\ stdout = <<>>
    /\ outcome = "running"
    /\ exit = None
    /\ result = None

-----------------------------------------------------------------------------
(* Ways a function ends.                                                   *)

\* sys.exit(code) after printing line: SystemExit is caught nowhere
SysExit(line, code) ==
    /\ stdout' = Append(stdout, line)
    /\ outcome' = "SystemExit"
    /\ exit' = Some(code)
    /\ pc' = "end"
    /\ result' = None

\* an exception nothing catches: the interpreter prints the traceback to
\* standard error and ends with status 1
Raise(exc) ==
    /\ outcome' = exc
    /\ exit' = Some(1)
    /\ pc' = "end"
    /\ result' = None
    /\ UNCHANGED stdout

\* the invoked function returns value to its caller
Return(value) ==
    /\ outcome' = "returned"
    /\ exit' = None
    /\ pc' = "end"
    /\ result' = Some(value)
    /\ UNCHANGED stdout

-----------------------------------------------------------------------------
(* main, lines 121-125, and the functions invoked on their own             *)

\* args = parse_args(); if not is_tx_hash(args.tx_hash): print, sys.exit(1)
MainStart ==
    /\ fn = "main" /\ pc = "main"
    /\ IF parse_args(args) = None
       THEN Raise("ValueError") /\ UNCHANGED args
       ELSE /\ args' = parse_args(args)[1]
            /\ IF ~is_tx_hash(args'.tx_hash)
               THEN SysExit(<<"Invalid tx hash.">>, 1)
               ELSE /\ pc' = "connect"
                    /\ UNCHANGED <<stdout, outcome, exit, result>>
    /\ UNCHANGED <<fn, calls, connected, tx, receipt, block, latest>>

IsTxHashCall ==
    /\ fn = "is_tx_hash" /\ pc = "is_tx_hash"
    /\ Return(is_tx_hash(args.tx_hash))
    /\ UNCHANGED <<fn, args, calls, connected, tx, receipt, block, latest>>

\* the failed probe is reported but the function goes on
ConnectExit_goes_on(rpc) ==
    /\ stdout' = Append(stdout, <<"Could not connect to RPC: ", rpc>>)
    /\ pc' = "get_transaction"
    /\ UNCHANGED <<outcome, exit, result>>

\* if not w3.is_connected(): print, sys.exit(1)
ConnectExit(rpc) == SysExit(<<"Could not connect to RPC: ", rpc>>, 1)

\* w3 = Web3(HTTPProvider(rpc, timeout 20)); if not w3.is_connected(): print,
\* sys.exit(1); return w3, time.time() - start.  In main the latency line is
\* printed next (line 128).
Connect ==
    /\ pc = "connect"
    /\ calls' = Append(calls, Probe)
    /\ \E up \in BOOLEAN, latency \in 0..MaxLatency :
          /\ connected' = Some(up)
          /\ IF ~up
             THEN ConnectExit(args.rpc)
             ELSE IF fn = "main"
                  THEN /\ stdout' = Append(stdout,
                             <<"RPC latency: ", ToString(latency), ".000s">>)
                       /\ pc' = "get_transaction"
                       /\ UNCHANGED <<outcome, exit, result>>
                  ELSE Return(<<"w3", latency>>)
    /\ UNCHANGED <<fn, args, tx, receipt, block, latest>>

-----------------------------------------------------------------------------
(* fetch_summary: the derived fields, lines 80-107                         *)

\* tx.gas or 0
gas_limit(t) == IF t.gas = None \/ t.gas = Some(0) THEN 0 ELSE t.gas[1]

\* Doubles.  A binary number is the sequence of its bits, the most
\* significant first; a double is [m, e], m of MantissaBits bits with the
\* first one set, standing for m * 2^e.

\* the bits of an IEEE 754 double's significand
MantissaBits == 53

RECURSIVE Pow2(_)
Pow2(n) == IF n = 0 THEN 1 ELSE 2 * Pow2(n - 1)

RECURSIVE BitsUpTo(_, _)
\* the number written by the first i bits of b
BitsUpTo(b, i) == IF i = 0 THEN 0 ELSE 2 * BitsUpTo(b, i - 1) + b[i]

BitsToInt(b) == BitsUpTo(b, Len(b))

RECURSIVE IntToBits(_)
IntToBits(n) == IF n = 0 THEN <<>> ELSE Append(IntToBits(n \div 2), n % 2)

\* b with zeros put in front, to n bits
PadTo(b, n) == [i \in 1..(n - Len(b)) |-> 0] \o b

\* b without its leading zeros
Strip(b) ==
    IF \A i \in DOMAIN b : b[i] = 0 THEN <<>>
    ELSE LET p == CHOOSE i \in DOMAIN b :
                    b[i] = 1 /\ \A j \in 1..(i - 1) : b[j] = 0
         IN SubSeq(b, p, Len(b))

\* b cut into numbers of ten bits, the most significant first
Limbs(b) ==
    LET n == (Len(b) + 9) \div 10
        p == PadTo(b, 10 * n)
    IN [k \in 1..n |-> BitsToInt(SubSeq(p, 10 * k - 9, 10 * k))]

RECURSIVE MulLimbs(_, _, _, _)
\* the bits of the first i limbs times c, plus carry
MulLimbs(limbs, c, i, carry) ==
    IF i = 0 THEN IntToBits(carry)
    ELSE LET t == limbs[i] * c + carry
         IN MulLimbs(limbs, c, i - 1, t \div 1024)
               \o PadTo(IntToBits(t % 1024), 10)

\* b * c for an integer c > 0
MulSmall(b, c) == Strip(MulLimbs(Limbs(b), c, Len(Limbs(b)), 0))

\* b + 1
Inc(b) ==
    IF \A i \in DOMAIN b : b[i] = 1 THEN <<1>> \o [i \in DOMAIN b |-> 0]
    ELSE LET p == CHOOSE i \in DOMAIN b :
                    b[i] = 0 /\ \A j \in (i + 1)..Len(b) : b[j] = 1
         IN [i \in DOMAIN b |-> IF i < p THEN b[i] ELSE IF i = p THEN 1 ELSE 0]

\* round-half-even: whether keep.rest rounds to keep + 1
RoundsUp(keep, rest) ==
    /\ rest # <<>>
    /\ rest[1] = 1
    /\ \/ \E i \in 2..Len(rest) : rest[i] = 1
       \/ (keep # <<>> /\ keep[Len(keep)] = 1)

\* the double nearest to b * 2^e, for b of at least MantissaBits bits
RoundToDouble(b, e) ==
    LET keep == SubSeq(b, 1, MantissaBits)
        rest == SubSeq(b, MantissaBits + 1, Len(b))
        m == IF RoundsUp(keep, rest) THEN Inc(keep) ELSE keep
    IN [m |-> SubSeq(m, 1, MantissaBits),
        e |-> e + Len(b) - MantissaBits
                + (IF Len(m) > MantissaBits THEN 1 ELSE 0)]

RECURSIVE Doublings(_, _)
\* the least k with a * 2^k >= b, for a > 0
Doublings(a, b) == IF a >= b THEN 0 ELSE 1 + Doublings(2 * a, b)

RECURSIVE DivBits(_, _, _)
\* the first 4 * n bits of the binary fraction r / d, for r < d, and one
\* more bit that is set when the fraction goes on
DivBits(r, d, n) ==
    IF n = 0 THEN <<IF r # 0 THEN 1 ELSE 0>>
    ELSE PadTo(IntToBits((16 * r) \div d), 4) \o DivBits((16 * r) % d, d, n - 1)

\* a / b for integers a > 0 and b > 0: the correctly rounded quotient
DivDouble(a, b) ==
    LET k == IF a >= b THEN Doublings(b, a + 1) ELSE 0
        j == IF a >= b THEN 0 ELSE Doublings(2 * a, b)
        n == (MantissaBits + 4) \div 4
    IN RoundToDouble(DivBits(a * Pow2(j), b * Pow2(k), n),
                     k - j - (4 * n + 1))

\* x * c for a double x and an integer c > 0
MulDouble(x, c) == RoundToDouble(MulSmall(x.m, c), x.e)

\* round(x, 2), in hundredths: x * 100 taken exactly and rounded to the
\* nearest integer, a tie going to the even one
RoundHundredths(x) ==
    LET t == MulSmall(x.m, 100)
        f == 0 - x.e
    IN IF f <= 0 THEN BitsToInt(t) * Pow2(x.e)
       ELSE IF f > Len(t) THEN 0
       ELSE LET keep == SubSeq(t, 1, Len(t) - f)
                rest == SubSeq(t, Len(t) - f + 1, Len(t))
            IN BitsToInt(keep) + (IF RoundsUp(keep, rest) THEN 1 ELSE 0)

\* the percentage is cut, not rounded
gasEfficiency_cut(gasUsed, gasLimit) ==
    IF gasLimit # 0
    THEN Float((gasUsed * 10000) \div gasLimit, -2)
    ELSE Float(0, 0)

\* round((receipt.gasUsed / gas_limit * 100) if gas_limit else 0.0, 2)
RoundedEfficiency(gasUsed, gasLimit) ==
    IF gasLimit # 0 /\ gasUsed # 0
    THEN Float(RoundHundredths(MulDouble(DivDouble(gasUsed, gasLimit), 100)), -2)
    ELSE Float(0, 0)

\* 32 makes gasUsed / gasLimit * 100 fall half-way between two hundredths
GasValues == 0..MaxGas \cup {32}

\* RoundedEfficiency on the gas amounts the node answers with, computed once
EfficiencyOfGasValues ==
    [p \in GasValues \X GasValues |-> RoundedEfficiency(p[1], p[2])] @@ <<>>

gasEfficiency(gasUsed, gasLimit) ==
    IF <<gasUsed, gasLimit>> \in DOMAIN EfficiencyOfGasValues
    THEN EfficiencyOfGasValues[<<gasUsed, gasLimit>>]
    ELSE RoundedEfficiency(gasUsed, gasLimit)

\* the legacy price is preferred
gas_price_legacy_first(r) ==
    IF r.gasPrice # None THEN r.gasPrice[1]
    ELSE IF r.effectiveGasPrice # None THEN r.effectiveGasPrice[1]
    ELSE 0

\* getattr(receipt, "effectiveGasPrice", getattr(receipt, "gasPrice", 0))
gas_price(r) ==
    IF r.effectiveGasPrice # None THEN r.effectiveGasPrice[1]
    ELSE IF r.gasPrice # None THEN r.gasPrice[1]
    ELSE 0

\* receipt.gasUsed * gas_price
total_fee(r) == r.gasUsed * gas_price(r)

\* block.get("baseFeePerGas", 0)
base_fee(b) == IF b.baseFeePerGas # None THEN b.baseFeePerGas[1] ELSE 0

\* the decimal places of a unit of Web3.from_wei
UnitDigits(unit) == IF unit = "gwei" THEN 9 ELSE 18

\* float(Web3.from_wei(number, unit)): number / 10^digits, and 0 for 0
from_wei(number, unit) ==
    IF number = 0 THEN Float(0, 0) ELSE Float(number, 0 - UnitDigits(unit))

\* the difference is not clamped
confirmations_unclamped(latestBlock, txBlock) == latestBlock - txBlock

\* max(0, latest - receipt.blockNumber)
confirmations(latestBlock, txBlock) == Max(0, latestBlock - txBlock)

\* NETWORKS.get(chain, f"Chain {chain}")
network(chain) ==
    IF chain \in DOMAIN NETWORKS
    THEN <<NETWORKS[chain]>>
    ELSE <<"Chain ", ToString(chain)>>

\* the fields of the dataclass TxSummary, in declaration order
TxSummaryFields ==
    <<"chainId", "network", "txHash", "from_addr", "to_addr", "blockNumber",
      "timestamp", "confirmations", "status", "gasUsed", "gasLimit",
      "gasEfficiency", "gasPriceGwei", "totalFeeEth", "baseFeeGwei", "miner",
      "explorer">>

\* asdict(TxSummary(...)), lines 90-109
Summary(tx_hash, t, r, b, l, chain) ==
    [chainId |-> chain,
     network |-> network(chain),
     txHash |-> tx_hash,
     from_addr |-> t.from,
     to_addr |-> IF t.to = None \/ t.to = Some("")
                 THEN "(contract creation)" ELSE t.to[1],
     blockNumber |-> r.blockNumber,
     timestamp |-> b.timestamp,
     confirmations |-> confirmations(l, r.blockNumber),
     status |-> r.status,
     gasUsed |-> r.gasUsed,
     gasLimit |-> gas_limit(t),
     gasEfficiency |-> gasEfficiency(r.gasUsed, gas_limit(t)),
     gasPriceGwei |-> from_wei(gas_price(r), "gwei"),
     totalFeeEth |-> from_wei(total_fee(r), "ether"),
     baseFeeGwei |-> from_wei(base_fee(b), "gwei"),
     miner |-> IF b.miner = None THEN "N/A" ELSE b.miner[1],
     explorer |-> explorer_url(chain, tx_hash)]

-----------------------------------------------------------------------------
(* main: the emission, lines 132-147                                       *)

\* the field names in the order sort_keys=True prints them
SortedKeys ==
    <<"baseFeeGwei", "blockNumber", "chainId", "confirmations", "explorer",
      "from_addr", "gasEfficiency", "gasLimit", "gasPriceGwei", "gasUsed",
      "miner", "network", "status", "timestamp", "to_addr", "totalFeeEth",
      "txHash">>

\* json.dumps(summary, indent=2, sort_keys=True): one printed object, its
\* members in key order
JsonLines(summary) ==
    << <<"json", [i \in DOMAIN SortedKeys |->
                    <<SortedKeys[i], summary[SortedKeys[i]]>>]>> >>

\* the eleven formatted lines
TextLines(summary) ==
    << <<"Network: ", summary.network, summary.chainId>>,
       <<"Explorer: ", summary.explorer>>,
       <<"From: ", summary.from_addr>>,
       <<"To: ", summary.to_addr>>,
       <<"Status: ", IF summary.status # 0 THEN "Success" ELSE "Failed">>,
       <<"Miner: ", summary.miner>>,
       <<"Block: ", summary.blockNumber, summary.timestamp>>,
       <<"Confirmations: ", summary.confirmations>>,
       <<"Gas Used: ", summary.gasUsed, summary.gasLimit, summary.gasEfficiency>>,
       <<"Gas Price: ", summary.gasPriceGwei, summary.baseFeeGwei>>,
       <<"Total Fee: ", summary.totalFeeEth>> >>

-----------------------------------------------------------------------------
(* The node's answers.                                                     *)

Blocks == 0..MaxBlock

Prices == 1..MaxPrice

\* eth_getTransactionByHash
TxReplies ==
    [blockNumber : Opt(Blocks), gas : Opt(GasValues), from : {"0xSender"},
     to : Opt({"", "0xRecipient"})]

\* eth_getTransactionReceipt: the receipt of a mined transaction names the
\* transaction's block
ReceiptReplies(t) ==
    [blockNumber : {t.blockNumber[1]}, gasUsed : GasValues, status : {0, 1},
     effectiveGasPrice : Opt(Prices), gasPrice : Opt(Prices)]

\* eth_getBlockByNumber
BlockReplies(n) ==
    [number : {n}, timestamp : {1700000000}, baseFeePerGas : Opt({MaxPrice}),
     miner : Opt({"0xMiner"})]

\* eth_chainId: two listed chains and one that is not
ChainIds == {1, 137, 999999}

-----------------------------------------------------------------------------
(* fetch_summary: the requests, lines 71-88                                *)

RpcSites ==
    <<"get_transaction", "get_transaction_receipt", "get_block",
      "block_number", "chain_id">>

IsRpcSite(p) == \E i \in DOMAIN RpcSites : RpcSites[i] = p

FetchSummaryCall ==
    /\ fn = "fetch_summary" /\ pc = "fetch_summary"
    /\ pc' = "get_transaction"
    /\ UNCHANGED <<fn, args, calls, connected, tx, receipt, block, latest,
                   stdout, outcome, exit, result>>

\* a failed chain-id request is swallowed and what is known is returned
RpcFault_partial ==
    /\ IsRpcSite(pc)
    /\ calls' = Append(calls, pc)
    /\ IF pc = "chain_id"
       THEN Return([txHash |-> args.tx_hash,
                    blockNumber |-> receipt[1].blockNumber,
                    gasUsed |-> receipt[1].gasUsed])
       ELSE Raise("RpcError")
    /\ UNCHANGED <<fn, args, connected, tx, receipt, block, latest>>

\* any request may fail (node error, hash not found): web3 raises, and
\* nothing catches it
RpcFault ==
    /\ IsRpcSite(pc)
    /\ calls' = Append(calls, pc)
    /\ Raise("RpcError")
    /\ UNCHANGED <<fn, args, connected, tx, receipt, block, latest>>

\* the pending transaction is reported but the function goes on
PendingExit_goes_on ==
    /\ stdout' = Append(stdout, <<"Pending transaction.">>)
    /\ pc' = "get_transaction_receipt"
    /\ UNCHANGED <<outcome, exit, result>>

\* if tx.blockNumber is None: print, sys.exit(0)
PendingExit == SysExit(<<"Pending transaction.">>, 0)

GetTransaction ==
    /\ pc = "get_transaction"
    /\ calls' = Append(calls, "get_transaction")
    /\ \E reply \in TxReplies :
          /\ tx' = Some(reply)
          /\ IF reply.blockNumber = None
             THEN PendingExit
             ELSE /\ pc' = "get_transaction_receipt"
                  /\ UNCHANGED <<stdout, outcome, exit, result>>
    /\ UNCHANGED <<fn, args, connected, receipt, block, latest>>

GetReceipt ==
    /\ pc = "get_transaction_receipt"
    /\ calls' = Append(calls, "get_transaction_receipt")
    /\ \E reply \in ReceiptReplies(tx[1]) : receipt' = Some(reply)
    /\ pc' = "get_block"
    /\ UNCHANGED <<fn, args, connected, tx, block, latest, stdout, outcome, exit,
                   result>>

GetBlock ==
    /\ pc = "get_block"
    /\ calls' = Append(calls, "get_block")
    /\ \E reply \in BlockReplies(receipt[1].blockNumber) : block' = Some(reply)
    /\ pc' = "block_number"
    /\ UNCHANGED <<fn, args, connected, tx, receipt, latest, stdout, outcome,
                   exit, result>>

GetLatest ==
    /\ pc = "block_number"
    /\ calls' = Append(calls, "block_number")
    /\ \E n \in Blocks : latest' = Some(n)
    /\ pc' = "chain_id"
    /\ UNCHANGED <<fn, args, connected, tx, receipt, block, stdout, outcome,
                   exit, result>>

\* main prints what fetch_summary returned and returns: exit status 0
Emit(summary) ==
    /\ stdout' = stdout \o (IF args.json THEN JsonLines(summary)
                            ELSE TextLines(summary))
    /\ outcome' = "returned"
    /\ exit' = Some(0)
    /\ pc' = "end"
    /\ result' = None

\* chain = w3.eth.chain_id; the summary is built and returned
GetChainId ==
    /\ pc = "chain_id"
    /\ calls' = Append(calls, "chain_id")
    /\ \E chain \in ChainIds :
          LET summary == Summary(args.tx_hash, tx[1], receipt[1], block[1],
                                 latest[1], chain)
          IN IF fn = "main" THEN Emit(summary) ELSE Return(summary)
    /\ UNCHANGED <<fn, args, connected, tx, receipt, block, latest>>

Next ==
    \/ MainStart
    \/ IsTxHashCall
    \/ Connect
    \/ FetchSummaryCall
    \/ RpcFault
    \/ GetTransaction
    \/ GetReceipt
    \/ GetBlock
    \/ GetLatest
    \/ GetChainId

Spec == Init /\ [][Next]_vars

-----------------------------------------------------------------------------
(* Properties.                                                             *)

Last(seq) == seq[Len(seq)]

RECURSIVE Pow10(_)
Pow10(n) == IF n = 0 THEN 1 ELSE 10 * Pow10(n - 1)

\* the integer f * 10^places, for a decimal f with at most places places
Scaled(f, places) ==
    IF f.digits = 0 THEN 0 ELSE f.digits * Pow10(f.exp + places)

\* the requests of fetch_summary among the requests issued
FetchCalls == SelectSeq(calls, LAMBDA c : c # Probe)

SummaryTags ==
    {"json", "Network: ", "Explorer: ", "From: ", "To: ", "Status: ",
     "Miner: ", "Block: ", "Confirmations: ", "Gas Used: ", "Gas Price: ",
     "Total Fee: "}

\* the printed lines that carry summary fields
SummaryLines == SelectSeq(stdout, LAMBDA line : line[1] \in SummaryTags)

Range(seq) == {seq[i] : i \in DOMAIN seq}

\* a summary was returned by fetch_summary
Returned == fn = "fetch_summary" /\ outcome = "returned" /\ result # None

\* C1: every run of main whose tx_hash fails the validator prints the error
\* message and ends with exit status 1, before any RPC connection or call,
\* and no exception propagates.
C1_InvalidHashExitsOne ==
    (fn = "main" /\ pc = "end" /\ ~is_tx_hash(args.tx_hash)) =>
        /\ outcome = "SystemExit"
        /\ exit = Some(1)
        /\ stdout = << <<"Invalid tx hash.">> >>
        /\ calls = <<>>

\* C2: when the fetched transaction has no block number, the run prints the
\* informational message and ends with exit status 0; the receipt, block,
\* latest-block-number and chain-ID requests are never issued and no summary
\* is returned or printed.
C2_PendingExitsZero ==
    (tx # None /\ tx[1].blockNumber = None) =>
        /\ outcome = "SystemExit"
        /\ exit = Some(0)
        /\ Last(stdout) = <<"Pending transaction.">>
        /\ FetchCalls = <<"get_transaction">>
        /\ result = None
        /\ SummaryLines = <<>>

C2_Witness ==
    /\ fn = "fetch_summary"
    /\ tx # None /\ tx[1].blockNumber = None /\ tx[1].gas # None
    /\ pc = "end" /\ exit = Some(0)

\* C3: when the connectivity probe fails, the process prints a diagnostic and
\* exits with status 1, and no transaction, receipt, block,
\* latest-block-number or chain-ID request is issued in that run.
C3_ProbeFailureExitsOne ==
    (connected = Some(FALSE)) =>
        /\ outcome = "SystemExit"
        /\ exit = Some(1)
        /\ Last(stdout) = <<"Could not connect to RPC: ", args.rpc>>
        /\ calls = <<Probe>>
        /\ result = None

C3_Witness ==
    /\ connected = Some(FALSE) /\ pc = "end" /\ exit = Some(1)
    /\ Len(stdout) = 1

\* C4: the summary is all-or-nothing: what is returned or printed has every
\* field of the summary or none, and a failed transaction, receipt, block,
\* latest-block-number or chain-ID request leaves no summary and ends the
\* process with a non-zero status.
C4_AllOrNothing ==
    /\ (fn = "fetch_summary" /\ result # None) =>
          DOMAIN result[1] = Range(TxSummaryFields)
    /\ \/ SummaryLines = <<>>
       \/ /\ Len(SummaryLines) = 1
          /\ SummaryLines[1][1] = "json"
          /\ {kv[1] : kv \in Range(SummaryLines[1][2])} = Range(TxSummaryFields)
       \/ /\ Len(SummaryLines) = 11
          /\ \A i \in 1..11 : SummaryLines[i][1] # "json"
    /\ (outcome = "RpcError") =>
          /\ result = None
          /\ SummaryLines = <<>>
          /\ exit # None /\ exit # Some(0)
    /\ (pc = "end" /\ FetchCalls # <<>> /\ Last(FetchCalls) = "chain_id") =>
          (outcome = "RpcError" \/ result # None \/ SummaryLines # <<>>)

C4_Witness ==
    /\ outcome = "RpcError" /\ Last(calls) = "chain_id" /\ latest # None
    /\ result = None /\ exit = Some(1)

SpecSummaryFields ==
    {"chainId", "network", "txHash", "fromAddr", "toAddr", "blockNumber",
     "timestamp", "confirmations", "status", "gasUsed", "gasLimit",
     "gasEfficiency", "gasPriceGwei", "totalFeeEth", "baseFeeGwei", "miner",
     "explorer"}

\* C6: in --json mode a run that gets a mined transaction's data writes to
\* standard output a single JSON object, sorted by key, whose keys are
\* exactly the summary's field names, and nothing else.  (A run that has
\* ended did so at one of the documented exits, or wrote that object.)
C6_JsonObjectOnly ==
    (fn = "main" /\ args.json /\ pc = "end" /\ is_tx_hash(args.tx_hash)) =>
        \/ connected = Some(FALSE)
        \/ (tx # None /\ tx[1].blockNumber = None)
        \/ outcome = "RpcError"
        \/ /\ Len(stdout) = 1
           /\ stdout[1][1] = "json"
           /\ {kv[1] : kv \in Range(stdout[1][2])} = SpecSummaryFields

HexDigits ==
    {"0", "1", "2", "3", "4", "5", "6", "7", "8", "9", "a", "b", "c", "d",
     "e", "f", "A", "B", "C", "D", "E", "F"}

\* C7: is_tx_hash returns true for a string if and only if it is exactly 66
\* characters long, begins with "0x" and its other 64 characters are
\* hexadecimal digits of either case.
C7_ValidatorExact ==
    (fn = "is_tx_hash" /\ pc = "end" /\ args.tx_hash.t = "str") =>
        LET s == args.tx_hash.s
        IN result = Some(/\ Len(s) = 66
                         /\ s[1] = "0" /\ s[2] = "x"
                         /\ \A i \in 3..66 : s[i] \in HexDigits)

C7_Witness ==
    /\ fn = "is_tx_hash" /\ pc = "end" /\ result = Some(TRUE)
    /\ \E i \in DOMAIN args.tx_hash.s : args.tx_hash.s[i] = "A"
    /\ \E i \in DOMAIN args.tx_hash.s : args.tx_hash.s[i] = "a"

\* C8: in every summary, confirmations is latestBlock - txBlock when the
\* latest block is at or above the transaction's block and 0 otherwise:
\* never negative.
C8_ConfirmationsClamped ==
    Returned =>
        LET s == result[1]
        IN /\ s.confirmations >= 0
           /\ latest[1] >= s.blockNumber =>
                 s.confirmations = latest[1] - s.blockNumber
           /\ latest[1] < s.blockNumber => s.confirmations = 0

C8_Witness ==
    /\ Returned
    /\ latest[1] < result[1].blockNumber
    /\ result[1].confirmations = 0

\* C9: the gas price behind gasPriceGwei and the total fee is the effective
\* gas price when the receipt has one and the legacy gas price when it has
\* not, and the total fee in base units is gasUsed times that price.
C9_GasPriceSelection ==
    (Returned /\ (receipt[1].effectiveGasPrice # None
                    \/ receipt[1].gasPrice # None)) =>
        LET r == receipt[1]
            price == IF r.effectiveGasPrice # None
                     THEN r.effectiveGasPrice[1] ELSE r.gasPrice[1]
        IN /\ Scaled(result[1].gasPriceGwei, 9) = price
           /\ Scaled(result[1].totalFeeEth, 18) = result[1].gasUsed * price

C9_Witness ==
    /\ Returned
    /\ receipt[1].effectiveGasPrice # None /\ receipt[1].gasPrice # None
    /\ receipt[1].effectiveGasPrice # receipt[1].gasPrice
    /\ receipt[1].gasUsed = 3
    /\ Scaled(result[1].totalFeeEth, 18) = 3 * receipt[1].effectiveGasPrice[1]

\* C10: gasEfficiency is gasUsed / gasLimit * 100 rounded to 2 decimals when
\* gasLimit is not 0 and 0.0 when it is 0; no gasUsed and gasLimit make the
\* computation fail.
C10_GasEfficiency ==
    /\ Returned =>
          LET s == result[1]
              h == Scaled(s.gasEfficiency, 2)
              d == h * s.gasLimit - s.gasUsed * 10000
          IN /\ s.gasLimit = (IF tx[1].gas = None THEN 0 ELSE tx[1].gas[1])
             /\ s.gasUsed = receipt[1].gasUsed
             /\ s.gasLimit = 0 => s.gasEfficiency = [digits |-> 0, exp |-> 0]
             /\ s.gasLimit # 0 => (2 * d <= s.gasLimit /\ 0 - 2 * d <= s.gasLimit)
    /\ (fn = "fetch_summary" /\ pc = "end" /\ FetchCalls = RpcSites) =>
          (outcome = "RpcError" \/ Returned)

C10_Witness ==
    /\ Returned
    /\ result[1].gasLimit = 0 /\ result[1].gasUsed > 0
    /\ result[1].gasEfficiency = [digits |-> 0, exp |-> 0]

=============================================================================
